---- MODULE Spec2Model ----
(***************************************************************************)
(* Stock-movement ledger of the inventory application.                     *)
(*                                                                         *)
(* The store (products and movements tables) is shared by several browser  *)
(* clients.  Each client runs the Movements page: it keeps a fetched copy  *)
(* of the product list (`products`), and Movements.handleSubmit reads that *)
(* copy, writes the new quantity to the products table and then inserts a  *)
(* row into the movements table.  Every `await` of handleSubmit is a point *)
(* where other handlers and other clients may run, so one handleSubmit is  *)
(* three steps: the synchronous prefix, the products update and the        *)
(* movements insert.                                                       *)
(*                                                                         *)
(* A select request (fetchProducts, fetchProfile) is one step: the moment  *)
(* the store reads the rows is the moment the page state is set.  Until    *)
(* that step the request is pending and the page keeps what it had.        *)
(* Invocations of handleSubmit are numbered in the order the forms are     *)
(* submitted; a client may submit again while earlier invocations of its   *)
(* own are still awaiting the store.                                       *)
(*                                                                         *)
(* The Products page (create, edit, delete), the Dashboard low-stock query *)
(* and the History filter are modelled over the same variables.  Spec is   *)
(* the Movements page with product deletion; SpecAccess adds the Products  *)
(* form and the end of a session under the row-level-security policies;    *)
(* SpecEdit follows the edit form of the Products page (handleEdit, the    *)
(* quantity box, the save) next to the Movements page; SpecDashboard,      *)
(* SpecStatus, SpecHistory and SpecReads are the two read-only pages.  On  *)
(* the History page a render and the filter effect it schedules are two    *)
(* steps.                                                                  *)
(***************************************************************************)
EXTENDS Integers, Sequences, FiniteSets, TLC

(* ------------------------------ bounds --------------------------------- *)

\* browser clients running the Movements page
NumClients == 2

\* total number of form submissions in one behaviour
MaxSubmits == 2

\* products registered before the behaviour starts
NumProducts == 1

\* quantity every product is registered with
InitialQuantity == 2

\* products created through the Products page in one behaviour
MaxCreates == 1

\* operations of one client's Products page in one behaviour
MaxProductOps == 1

\* movements recorded while the Dashboard page is followed
MaxDashboardMovements == 1

\* rows the store may answer fetchMovements with
MaxMovements == 3

\* clients whose Products page is followed through its edit form
MaxEditors == 1

\* largest quantity and min_stock the stock status is followed with
MaxStockLevel == 3

Clients == 1..NumClients
Calls == 1..MaxSubmits
Editors == {c \in Clients : c <= MaxEditors}
ProductIds == 1..NumProducts

\* ids the store gives to the products created later (gen_random_uuid())
NewProductIds == (NumProducts + 1)..(NumProducts + MaxCreates)

\* min_stock INTEGER NOT NULL DEFAULT 10, and min_stock: 10 of the Products form
DefaultMinStock == 10

\* what the user may leave in the quantity box of the Products form
ProductFormQuantities == {1}

\* what the user may leave in the quantity box of the Movements form
QuantityTexts == {"", "-1", "0", "1", "2"}

\* what the user may leave in the notes box
NotesTexts == {"obs"}

(* ------------------------------ helpers -------------------------------- *)

\* a nullable value: None is null / undefined, Some(x) is the value x
None == <<>>
Some(x) == <<x>>
Get(o) == o[1]

\* parseInt on the texts above; NaN is the record with nan = TRUE
ParseInt(text) ==
  CASE text = "-1" -> [nan |-> FALSE, val |-> -1]
    [] text = "0"  -> [nan |-> FALSE, val |-> 0]
    [] text = "1"  -> [nan |-> FALSE, val |-> 1]
    [] text = "2"  -> [nan |-> FALSE, val |-> 2]
    [] OTHER       -> [nan |-> TRUE, val |-> 0]

\* quantity: parseInt(e.target.value) || 1  (NaN and 0 are falsy)
ParseQuantity(text) ==
  LET r == ParseInt(text) IN IF r.nan \/ r.val = 0 THEN 1 ELSE r.val

\* the quantity box without its min="1" constraint
FormValidUnchecked(quantity) == TRUE

\* <Input type="number" required min="1" value={formData.quantity}>: the
\* browser dispatches the submit event only when the control is valid
FormValid(quantity) == quantity >= 1

\* formData.notes || null
NotesOrNull(notes) == IF notes = "" THEN None ELSE Some(notes)

\* profiles.full_name of a user
FullName(u) == u

(* ------------------------------- state --------------------------------- *)

VARIABLES
  productsTbl,      \* public.products: id -> [quantity, min_stock]
  movementsTbl,     \* public.movements: sequence of rows, oldest first
  products,         \* Movements page state `products` of each client: id -> quantity
  profile,          \* Movements page state `profile` of each client
  user,             \* useAuth().user of each client
  fetchPending,     \* fetchProducts requests not answered yet
  pc,               \* position of each handleSubmit invocation
  run,              \* closure of each handleSubmit invocation, and what became
                    \* of it: mounted (its page instance is still the mounted
                    \* one), existedAtStart (the product was in the store when
                    \* it was called), overlap (the invocations in flight
                    \* together with it), updateApplied and prevQuantity (its
                    \* products update changed a row, which held prevQuantity),
                    \* selectedQuantity and storedQuantity (the quantity of
                    \* the product in the page's list and in the store when
                    \* it was called), refusal (why the store refused a
                    \* write: "transport", "reference" or "policy")
  outcome,          \* what each handleSubmit invocation reported
  nSubmits,         \* submissions so far
  initialQuantity,  \* quantity each product was registered with
  productsPage,     \* Products page of each client: its last operation (op),
                    \* useAuth().user when it was invoked (actor), the toast
                    \* it showed, the number of rows the store wrote for it,
                    \* the number n of its operations so far, and its state
                    \* `products` (id -> quantity), `editingProduct`,
                    \* `formData` and its fetchProducts requests not
                    \* answered yet (fetchPending)
  dashboard,        \* Dashboard page state: `loading`, `lowStockProducts`
  movements,        \* History page state `movements`
  filteredMovements,\* History page state `filteredMovements`
  searchTerm,       \* History page state `searchTerm`
  typeFilter,       \* History page state `typeFilter`
  loading,          \* History page state `loading`
  effectPending     \* the History page has rendered a change of searchTerm,
                    \* typeFilter or movements and its filter effect has not
                    \* run yet

\* state of the History page
historyVars ==
  <<movements, filteredMovements, searchTerm, typeFilter, loading, effectPending>>

\* state of the Dashboard and History pages
readPages == <<dashboard, historyVars>>

vars == <<productsTbl, movementsTbl, products, profile, user,
          fetchPending, pc, run, outcome, nSubmits,
          initialQuantity, productsPage, readPages>>

NoRun ==
  [client |-> None, product_id |-> None, type |-> "entrada", quantity |-> 0,
   notes |-> None, newQuantity |-> None,
   responsible_id |-> None, responsible_name |-> None,
   mounted |-> FALSE, existedAtStart |-> FALSE, overlap |-> {},
   updateApplied |-> FALSE, prevQuantity |-> None,
   selectedQuantity |-> None, storedQuantity |-> None, refusal |-> "none"]

\* a Products page that has not submitted or deleted anything: useState([]),
\* useState(null), the empty form, and the fetchProducts of its mount effect
NoOperation ==
  [op |-> "none", actor |-> None, toast |-> "none", rows |-> 0, n |-> 0,
   products |-> <<>>, editingProduct |-> None, formData |-> [quantity |-> 0],
   fetchPending |-> 1]

\* every client signed in, its Movements page just mounted
InitMovementsPages ==
  /\ products = [c \in Clients |-> <<>>]
  /\ profile = [c \in Clients |-> None]
  /\ user = [c \in Clients |-> Some(c)]
  /\ fetchPending = [c \in Clients |-> 1]
  /\ pc = [k \in Calls |-> "idle"]
  /\ run = [k \in Calls |-> NoRun]
  /\ outcome = [k \in Calls |-> "none"]
  /\ nSubmits = 0
  /\ productsPage = [c \in Clients |-> NoOperation]

\* useState([]), useState(true), useState(""), useState("all") of Dashboard
\* and History; a string is the sequence of its characters
InitReadPages ==
  /\ dashboard = [loading |-> TRUE, lowStockProducts |-> <<>>]
  /\ movements = <<>>
  /\ filteredMovements = <<>>
  /\ searchTerm = <<>>
  /\ typeFilter = "all"
  /\ loading = TRUE
  /\ effectPending = FALSE

Init ==
  /\ productsTbl = [p \in ProductIds |->
                      [quantity |-> InitialQuantity, min_stock |-> DefaultMinStock]]
  /\ movementsTbl = <<>>
  /\ initialQuantity = [p \in ProductIds |-> productsTbl[p].quantity]
  /\ InitMovementsPages
  /\ InitReadPages

(* ------------------------- Movements page ------------------------------ *)

InFlight == {k \in Calls : pc[k] # "idle"}

\* policies that are not restricted to the role `authenticated`
AuthenticatedAnyone(c) == TRUE

\* the session of client c carries the role `authenticated`
Authenticated(c) == user[c] # None

\* Page reads are followed while a submission can still use what they
\* bring; after the last submission of a behaviour the lists are read by
\* no handler.
PageRead == nSubmits < MaxSubmits

\* the closure handleSubmit runs with: formData, user and profile of the
\* render it was created in, plus bookkeeping of what the store did with it
NewRun(c, pid, type, quantity, notes) ==
  [NoRun EXCEPT
     !.client = Some(c),
     !.product_id = Some(pid),
     !.type = type,
     !.quantity = quantity,
     !.notes = NotesOrNull(notes),
     !.responsible_id = user[c],
     !.responsible_name = profile[c],
     !.mounted = TRUE,
     !.existedAtStart = pid \in DOMAIN productsTbl,
     !.selectedQuantity =
        IF pid \in DOMAIN products[c] THEN Some(products[c][pid]) ELSE None,
     !.storedQuantity =
        IF pid \in DOMAIN productsTbl THEN Some(productsTbl[pid].quantity) ELSE None]

\* const newQuantity = type === "entrada" ? selected + quantity : selected - quantity
NewQuantity(type, selectedQuantity, quantity) ==
  IF type = "entrada" THEN selectedQuantity + quantity
  ELSE selectedQuantity - quantity

\* handleSubmit without its stock validation
InsufficientStockUnchecked(type, quantity, selectedQuantity) == FALSE

\* formData.type === "saida" && formData.quantity > selectedProduct.quantity
InsufficientStock(type, quantity, selectedQuantity) ==
  type = "saida" /\ quantity > selectedQuantity

\* The user submits the Movements form: the browser validates the controls,
\* then handleSubmit runs up to its first await.
HandleSubmit(c, pid, type, text, notes) ==
  LET k == nSubmits + 1
      quantity == ParseQuantity(text)
      r == NewRun(c, pid, type, quantity, notes)
      Return(msg) ==
        /\ outcome' = [outcome EXCEPT ![k] = msg]
        /\ run' = [run EXCEPT ![k] = [r EXCEPT !.notes = None, !.mounted = FALSE]]
        /\ UNCHANGED pc
  IN
  /\ nSubmits < MaxSubmits
  /\ nSubmits' = k
  /\ IF ~FormValid(quantity) THEN Return("invalid")
     ELSE IF user[c] = None \/ profile[c] = None THEN Return("unauth")
     ELSE IF pid \notin DOMAIN products[c] THEN Return("notfound")
     ELSE IF InsufficientStock(type, quantity, products[c][pid])
       THEN Return("insufficient")
     ELSE
       /\ pc' = [pc EXCEPT ![k] = "update"]
       /\ UNCHANGED outcome
       /\ run' = [g \in Calls |->
            IF g = k
              THEN [r EXCEPT
                      !.newQuantity = Some(NewQuantity(type, products[c][pid], quantity)),
                      !.overlap = InFlight]
            ELSE IF g \in InFlight
              THEN [run[g] EXCEPT !.overlap = @ \cup {k}]
            ELSE run[g]]
  /\ UNCHANGED <<productsTbl, movementsTbl, products, profile, user,
                 fetchPending, initialQuantity, productsPage, readPages>>

\* the products update without its .eq("id", ...) filter: every row is written
UpdateOkEveryRow(k) ==
  LET r == run[k]
      id == Get(r.product_id) IN
  /\ pc[k] = "update"
  /\ IF id \in DOMAIN productsTbl /\ Authenticated(Get(r.client))
       THEN /\ productsTbl' = [p \in DOMAIN productsTbl |->
                                [productsTbl[p] EXCEPT !.quantity = Get(r.newQuantity)]]
            /\ run' = [run EXCEPT ![k].updateApplied = TRUE,
                                  ![k].prevQuantity = Some(productsTbl[id].quantity)]
       ELSE UNCHANGED <<productsTbl, run>>
  /\ pc' = [pc EXCEPT ![k] = "insert"]
  /\ UNCHANGED <<movementsTbl, products, profile, user,
                 fetchPending, outcome, nSubmits, initialQuantity, productsPage, readPages>>

\* supabase.from("products").update({ quantity: newQuantity }).eq("id", product_id)
\* answered without error; a filter that matches no row is not an error, and
\* the update policy (TO authenticated) shows no row to a session without
\* that role
UpdateOk(k) ==
  LET r == run[k]
      id == Get(r.product_id) IN
  /\ pc[k] = "update"
  /\ IF id \in DOMAIN productsTbl /\ Authenticated(Get(r.client))
       THEN /\ productsTbl' = [productsTbl EXCEPT ![id].quantity = Get(r.newQuantity)]
            /\ run' = [run EXCEPT ![k].updateApplied = TRUE,
                                  ![k].prevQuantity = Some(productsTbl[id].quantity)]
       ELSE UNCHANGED <<productsTbl, run>>
  /\ pc' = [pc EXCEPT ![k] = "insert"]
  /\ UNCHANGED <<movementsTbl, products, profile, user,
                 fetchPending, outcome, nSubmits, initialQuantity, productsPage, readPages>>

\* the update is answered with an error: throw updateError, caught at the end
UpdateError(k) ==
  /\ pc[k] = "update"
  /\ pc' = [pc EXCEPT ![k] = "idle"]
  /\ outcome' = [outcome EXCEPT ![k] = "error"]
  /\ run' = [run EXCEPT ![k].mounted = FALSE, ![k].refusal = "transport"]
  /\ UNCHANGED <<productsTbl, movementsTbl, products, profile, user,
                 fetchPending, nSubmits, initialQuantity, productsPage, readPages>>

\* the row handleSubmit inserts; `call` records which invocation wrote it
MovementRow(k) ==
  LET r == run[k] IN
  [product_id |-> Get(r.product_id), type |-> r.type, quantity |-> r.quantity,
   responsible_id |-> Get(r.responsible_id),
   responsible_name |-> Get(r.responsible_name),
   notes |-> r.notes, call |-> k]

\* the insert policy: WITH CHECK (auth.uid() = responsible_id)
InsertPolicy(k) == user[Get(run[k].client)] = run[k].responsible_id

\* the foreign key: product_id REFERENCES public.products(id)
InsertReference(k) == Get(run[k].product_id) \in DOMAIN productsTbl

\* the row passes the insert policy and the foreign key on product_id
InsertAccepted(k) == InsertPolicy(k) /\ InsertReference(k)

\* why the store may answer the insert with an error: the request did not
\* get through, or the row breaks the policy, or (the policy passed) the
\* foreign key
InsertRefusals(k) ==
  {"transport"} \cup (IF ~InsertPolicy(k) THEN {"policy"}
                      ELSE IF ~InsertReference(k) THEN {"reference"}
                      ELSE {})

\* supabase.from("movements").insert([...]) succeeds; then the success path:
\* toast.success, setDialogOpen(false), resetForm(), fetchProducts()
InsertOk(k) ==
  LET c == Get(run[k].client) IN
  /\ pc[k] = "insert"
  /\ InsertAccepted(k)
  /\ movementsTbl' = Append(movementsTbl, MovementRow(k))
  /\ run' = [run EXCEPT ![k].mounted = FALSE]
  /\ pc' = [pc EXCEPT ![k] = "idle"]
  /\ outcome' = [outcome EXCEPT ![k] = "success"]
  /\ fetchPending' = [fetchPending EXCEPT ![c] = IF run[k].mounted THEN @ + 1 ELSE @]
  /\ UNCHANGED <<productsTbl, products, profile, user, nSubmits, initialQuantity, productsPage, readPages>>

\* the insert is answered with an error (constraint, policy or transport):
\* throw insertError, caught at the end; nothing undoes the products update
InsertError(k) ==
  /\ pc[k] = "insert"
  /\ pc' = [pc EXCEPT ![k] = "idle"]
  /\ outcome' = [outcome EXCEPT ![k] = "error"]
  /\ \E why \in InsertRefusals(k) :
       run' = [run EXCEPT ![k].mounted = FALSE, ![k].refusal = why]
  /\ UNCHANGED <<productsTbl, movementsTbl, products, profile, user,
                 fetchPending, nSubmits, initialQuantity, productsPage, readPages>>

\* a fetchProducts request is answered: select id, name, quantity from
\* products, then setProducts(data || []); the select policy (TO
\* authenticated) shows no row to a session without that role
FetchProductsOk(c) ==
  /\ PageRead
  /\ fetchPending[c] > 0
  /\ fetchPending' = [fetchPending EXCEPT ![c] = @ - 1]
  /\ products' = [products EXCEPT
       ![c] = IF Authenticated(c)
                THEN [p \in DOMAIN productsTbl |-> productsTbl[p].quantity]
                ELSE <<>>]
  /\ UNCHANGED <<productsTbl, movementsTbl, profile, user,
                 pc, run, outcome, nSubmits, initialQuantity, productsPage, readPages>>

\* a fetchProducts request fails: toast.error, the list is left as it was
FetchProductsError(c) ==
  /\ PageRead
  /\ fetchPending[c] > 0
  /\ fetchPending' = [fetchPending EXCEPT ![c] = @ - 1]
  /\ UNCHANGED <<productsTbl, movementsTbl, products, profile, user,
                 pc, run, outcome, nSubmits, initialQuantity, productsPage, readPages>>

\* fetchProfile is answered: select full_name from profiles where id =
\* user.id, then setProfile(data).  A request that fails only logs to the
\* console and leaves profile null, as a request not answered yet does.
FetchProfileOk(c) ==
  /\ PageRead
  /\ user[c] # None
  /\ profile[c] = None
  /\ profile' = [profile EXCEPT ![c] = Some(FullName(Get(user[c])))]
  /\ UNCHANGED <<productsTbl, movementsTbl, products, user, fetchPending,
                 pc, run, outcome, nSubmits, initialQuantity, productsPage, readPages>>

\* The user leaves the Movements route and comes back: the page is mounted
\* anew with products = [] and profile = null, and the mount effect calls
\* fetchProducts() and fetchProfile().  Requests and handlers of the old
\* instance keep running against the store but no longer reach the page.
Mount(c) ==
  /\ PageRead
  /\ products' = [products EXCEPT ![c] = <<>>]
  /\ profile' = [profile EXCEPT ![c] = None]
  /\ fetchPending' = [fetchPending EXCEPT ![c] = 1]
  /\ run' = [k \in Calls |->
       IF run[k].client = Some(c) THEN [run[k] EXCEPT !.mounted = FALSE] ELSE run[k]]
  /\ UNCHANGED <<productsTbl, movementsTbl, user, pc, outcome, nSubmits,
                 initialQuantity, productsPage, readPages>>

(* -------------------------- Products page ------------------------------ *)

\* a products delete that leaves the movement rows where they are
WithoutProductKept(rows, id) == rows

RECURSIVE WithoutProduct(_, _)
\* the movement rows that survive the deletion of product id
WithoutProduct(rows, id) ==
  IF rows = <<>> THEN <<>>
  ELSE IF Head(rows).product_id = id THEN WithoutProduct(Tail(rows), id)
  ELSE <<Head(rows)>> \o WithoutProduct(Tail(rows), id)

\* Products.handleDelete: supabase.from("products").delete().eq("id", id);
\* movements.product_id is declared ON DELETE CASCADE.  The delete policy
\* (TO authenticated) shows no row to a session without that role, and a
\* delete that matches no row is not an error.
HandleDelete(c, id) ==
  /\ productsPage[c].n < MaxProductOps
  /\ id \in DOMAIN productsTbl
  /\ IF Authenticated(c)
       THEN /\ productsTbl' = [p \in DOMAIN productsTbl \ {id} |-> productsTbl[p]]
            /\ movementsTbl' = WithoutProduct(movementsTbl, id)
       ELSE UNCHANGED <<productsTbl, movementsTbl>>
  /\ productsPage' = [productsPage EXCEPT
       ![c] = [@ EXCEPT !.op = "delete", !.actor = user[c], !.toast = "success",
                        !.rows = IF Authenticated(c) THEN 1 ELSE 0,
                        !.n = @ + 1, !.fetchPending = @ + 1]]
  /\ UNCHANGED <<products, profile, user, fetchPending, pc, run, outcome,
                 nSubmits, initialQuantity, readPages>>

\* Products.handleSubmit with editingProduct = null: insert of formData with
\* created_by: user?.id.  The insert policy (TO authenticated) refuses the
\* row of a session without that role: toast.error("Erro ao salvar produto").
CreateProduct(c, quantity) ==
  LET free == NewProductIds \ DOMAIN initialQuantity
      id == CHOOSE i \in free : \A j \in free : i <= j IN
  /\ productsPage[c].n < MaxProductOps
  /\ productsPage[c].editingProduct = None
  /\ free # {}
  /\ IF Authenticated(c)
       THEN /\ productsTbl' =
                 [p \in DOMAIN productsTbl \cup {id} |->
                    IF p = id
                      THEN [quantity |-> quantity, min_stock |-> DefaultMinStock]
                      ELSE productsTbl[p]]
            /\ initialQuantity' =
                 [p \in DOMAIN initialQuantity \cup {id} |->
                    IF p = id THEN quantity ELSE initialQuantity[p]]
       ELSE UNCHANGED <<productsTbl, initialQuantity>>
  /\ productsPage' = [productsPage EXCEPT
       ![c] = IF Authenticated(c)
                THEN [@ EXCEPT !.op = "create", !.actor = user[c],
                               !.toast = "success", !.rows = 1, !.n = @ + 1,
                               !.formData = NoOperation.formData,
                               !.fetchPending = @ + 1]
                ELSE [@ EXCEPT !.op = "create", !.actor = user[c],
                               !.toast = "error", !.rows = 0, !.n = @ + 1]]
  /\ UNCHANGED <<movementsTbl, products, profile, user, fetchPending, pc, run,
                 outcome, nSubmits, readPages>>

\* Products.handleSubmit with editingProduct set by handleEdit:
\* supabase.from("products").update(formData).eq("id", editingProduct.id),
\* formData.quantity being what the quantity box holds.  An update that
\* matches no row (product gone, or no row shown by the update policy) is
\* not an error: toast.success("Produto atualizado com sucesso!"), then
\* setDialogOpen(false), resetForm() and fetchProducts().
EditProduct(c, id, quantity) ==
  LET matched == id \in DOMAIN productsTbl /\ Authenticated(c) IN
  /\ productsPage[c].n < MaxProductOps
  /\ id \in DOMAIN initialQuantity
  /\ productsTbl' = IF matched
                      THEN [productsTbl EXCEPT ![id].quantity = quantity]
                      ELSE productsTbl
  /\ productsPage' = [productsPage EXCEPT
       ![c] = [@ EXCEPT !.op = "edit", !.actor = user[c], !.toast = "success",
                        !.rows = IF matched THEN 1 ELSE 0, !.n = @ + 1,
                        !.editingProduct = None,
                        !.formData = NoOperation.formData,
                        !.fetchPending = @ + 1]]
  /\ UNCHANGED <<movementsTbl, products, profile, user, fetchPending, pc, run,
                 outcome, nSubmits, initialQuantity, readPages>>

\* Products.fetchProducts answered with rows: setProducts(data || []).  The
\* select policy (TO authenticated) shows no row to a session without that
\* role.
ProductsFetchOk(c) ==
  /\ productsPage[c].fetchPending > 0
  /\ productsPage' = [productsPage EXCEPT
       ![c] = [@ EXCEPT !.fetchPending = @ - 1,
                        !.products =
                           IF Authenticated(c)
                             THEN [p \in DOMAIN productsTbl |-> productsTbl[p].quantity]
                             ELSE <<>>]]
  /\ UNCHANGED <<productsTbl, movementsTbl, products, profile, user, fetchPending,
                 pc, run, outcome, nSubmits, initialQuantity, readPages>>

\* Products.fetchProducts answered with an error: toast.error, the list
\* stays what it was
ProductsFetchError(c) ==
  /\ productsPage[c].fetchPending > 0
  /\ productsPage' = [productsPage EXCEPT ![c].fetchPending = @ - 1]
  /\ UNCHANGED <<productsTbl, movementsTbl, products, profile, user, fetchPending,
                 pc, run, outcome, nSubmits, initialQuantity, readPages>>

\* Products.handleEdit(product), product being a row of the rendered list:
\* setEditingProduct(product), setFormData({..., quantity: product.quantity})
HandleEdit(c, id) ==
  /\ productsPage[c].n < MaxProductOps
  /\ id \in DOMAIN productsPage[c].products
  /\ LET product == [id |-> id, quantity |-> productsPage[c].products[id]] IN
       productsPage' = [productsPage EXCEPT
         ![c] = [@ EXCEPT !.editingProduct = Some(product),
                          !.formData = [quantity |-> product.quantity]]]
  /\ UNCHANGED <<productsTbl, movementsTbl, products, profile, user, fetchPending,
                 pc, run, outcome, nSubmits, initialQuantity, readPages>>

\* onChange of the quantity box of the Products form, quantity being
\* parseInt(e.target.value) || 0
SetFormQuantity(c, quantity) ==
  /\ productsPage[c].n < MaxProductOps
  /\ productsPage[c].formData.quantity # quantity
  /\ productsPage' = [productsPage EXCEPT ![c].formData.quantity = quantity]
  /\ UNCHANGED <<productsTbl, movementsTbl, products, profile, user, fetchPending,
                 pc, run, outcome, nSubmits, initialQuantity, readPages>>

\* Products.handleSubmit: if (editingProduct) update ... else insert ...
ProductsHandleSubmit(c) ==
  IF productsPage[c].editingProduct # None
    THEN EditProduct(c, Get(productsPage[c].editingProduct).id,
                     productsPage[c].formData.quantity)
    ELSE CreateProduct(c, productsPage[c].formData.quantity)

\* Products.getStockBadge: the label and the variant of the Badge it returns
GetStockBadge(quantity, minStock) ==
  IF quantity = 0 THEN [label |-> "Esgotado", variant |-> "destructive"]
  ELSE IF quantity <= minStock THEN [label |-> "Baixo", variant |-> "warning"]
  ELSE [label |-> "Normal", variant |-> "success"]

(* --------------------------- Dashboard page ---------------------------- *)

\* .slice(0, 5)
LowStockLimit == 5

\* the filter with < in place of <=
IsLowStockStrict(p) == p.quantity < p.min_stock

\* p => p.quantity <= p.min_stock
IsLowStock(p) == p.quantity <= p.min_stock

\* the rows select("*") returns: the store's rows in the order it keeps them
AllProducts ==
  LET ids == DOMAIN productsTbl
      RECURSIVE Scan(_)
      Scan(from) ==
        IF from \cap ids = {} THEN <<>>
        ELSE LET id == CHOOSE i \in from \cap ids : \A j \in from \cap ids : i <= j IN
             <<[id |-> id, quantity |-> productsTbl[id].quantity,
                min_stock |-> productsTbl[id].min_stock]>> \o Scan(from \ {id})
  IN Scan(ids)

RECURSIVE InsertByQuantity(_, _)
\* p put into the sorted sequence s after every element that does not come
\* after it under (a, b) => a.quantity - b.quantity
InsertByQuantity(s, p) ==
  IF s = <<>> THEN <<p>>
  ELSE IF Head(s).quantity - p.quantity <= 0
    THEN <<Head(s)>> \o InsertByQuantity(Tail(s), p)
  ELSE <<p>> \o s

RECURSIVE SortByQuantity(_)
\* .sort((a, b) => a.quantity - b.quantity): ascending, equal quantities
\* keep the order they had
SortByQuantity(s) ==
  IF s = <<>> THEN <<>>
  ELSE InsertByQuantity(SortByQuantity(SubSeq(s, 1, Len(s) - 1)), s[Len(s)])

\* .slice(0, n)
Slice(s, n) == SubSeq(s, 1, IF Len(s) < n THEN Len(s) ELSE n)

\* (allProducts || []).filter(...).sort(...).slice(0, 5)
LowStock(allProducts) ==
  Slice(SortByQuantity(SelectSeq(allProducts, IsLowStock)), LowStockLimit)

\* getStockStatus with < in place of <=
GetStockStatusStrict(quantity, minStock) ==
  IF quantity = 0 THEN [label |-> "Crítico", variant |-> "destructive"]
  ELSE IF quantity < minStock THEN [label |-> "Baixo", variant |-> "warning"]
  ELSE [label |-> "Normal", variant |-> "success"]

\* Dashboard.getStockStatus
GetStockStatus(quantity, minStock) ==
  IF quantity = 0 THEN [label |-> "Crítico", variant |-> "destructive"]
  ELSE IF quantity <= minStock THEN [label |-> "Baixo", variant |-> "warning"]
  ELSE [label |-> "Normal", variant |-> "success"]

\* The Dashboard route is entered: the page is mounted with its initial
\* state and its mount effect calls fetchDashboardData().
DashboardMount ==
  /\ ~dashboard.loading
  /\ dashboard' = [loading |-> TRUE, lowStockProducts |-> <<>>]
  /\ UNCHANGED <<productsTbl, movementsTbl, products, profile, user, fetchPending,
                 pc, run, outcome, nSubmits, initialQuantity, productsPage,
                 historyVars>>

\* fetchDashboardData is answered: setLowStockProducts(lowStock), and
\* setLoading(false) in its finally block
FetchDashboardData ==
  /\ dashboard.loading
  /\ dashboard' = [loading |-> FALSE, lowStockProducts |-> LowStock(AllProducts)]
  /\ UNCHANGED <<productsTbl, movementsTbl, products, profile, user, fetchPending,
                 pc, run, outcome, nSubmits, initialQuantity, productsPage,
                 historyVars>>

\* A movement of product id is recorded by some client while the Dashboard
\* is followed: the products update of handleSubmit writes newQuantity.
MovementRecorded(id, newQuantity) ==
  /\ nSubmits < MaxDashboardMovements
  /\ id \in DOMAIN productsTbl
  /\ newQuantity # productsTbl[id].quantity
  /\ nSubmits' = nSubmits + 1
  /\ productsTbl' = [productsTbl EXCEPT ![id].quantity = newQuantity]
  /\ UNCHANGED <<movementsTbl, products, profile, user, fetchPending, pc, run,
                 outcome, initialQuantity, productsPage, readPages>>

(* ---------------------------- History page ----------------------------- *)

\* no lowering of case at all
ToLowerCaseMissing(s) == s

\* String.prototype.toLowerCase on the letters used here
ToLowerCase(s) ==
  [i \in 1..Len(s) |-> CASE s[i] = "A" -> "a" [] s[i] = "B" -> "b" [] OTHER -> s[i]]

\* s.includes(t): t occurs in s as a run of consecutive characters
Includes(s, t) ==
  \E i \in 0..(Len(s) - Len(t)) : SubSeq(s, i + 1, i + Len(t)) = t

\* filterMovements starting from the list it produced last
FilterMovementsNarrowing(list, term, type) ==
  LET bySearch ==
        IF term # <<>>
          THEN SelectSeq(filteredMovements, LAMBDA m :
                 \/ Includes(ToLowerCase(m.products.name), ToLowerCase(term))
                 \/ Includes(ToLowerCase(m.responsible_name), ToLowerCase(term)))
          ELSE filteredMovements
  IN IF type # "all" THEN SelectSeq(bySearch, LAMBDA m : m.type = type)
     ELSE bySearch

\* what filterMovements passes to setFilteredMovements
FilterMovements(list, term, type) ==
  LET bySearch ==
        IF term # <<>>
          THEN SelectSeq(list, LAMBDA m :
                 \/ Includes(ToLowerCase(m.products.name), ToLowerCase(term))
                 \/ Includes(ToLowerCase(m.responsible_name), ToLowerCase(term)))
          ELSE list
  IN IF type # "all" THEN SelectSeq(bySearch, LAMBDA m : m.type = type)
     ELSE bySearch

\* useEffect(() => { filterMovements(); }, [searchTerm, typeFilter, movements])
\* without typeFilter among its dependencies
FilterEffectRunsWithoutType(dep) == dep \in {"searchTerm", "movements"}

\* useEffect(() => { filterMovements(); }, [searchTerm, typeFilter, movements]):
\* the effect is scheduled by a render in which dep has changed
FilterEffectRuns(dep) == dep \in {"searchTerm", "typeFilter", "movements"}

\* The History route is entered: the page is mounted with its initial state;
\* its effects call fetchMovements() and filterMovements() (on the empty
\* list, which it sets again).  A click is handled after the effects of the
\* last render have run.
HistoryMount ==
  /\ ~loading
  /\ ~effectPending
  /\ movements' = <<>>
  /\ filteredMovements' = <<>>
  /\ searchTerm' = <<>>
  /\ typeFilter' = "all"
  /\ loading' = TRUE
  /\ effectPending' = FALSE
  /\ UNCHANGED <<productsTbl, movementsTbl, products, profile, user, fetchPending,
                 pc, run, outcome, nSubmits, initialQuantity, productsPage, dashboard>>

\* fetchMovements is answered with data: setMovements(data),
\* setFilteredMovements(data), setLoading(false), rendered together; data is
\* a new array, so movements has changed and the filter effect is scheduled
FetchMovementsOk(data) ==
  /\ loading
  /\ ~effectPending
  /\ movements' = data
  /\ filteredMovements' = data
  /\ loading' = FALSE
  /\ effectPending' = FilterEffectRuns("movements")
  /\ UNCHANGED <<productsTbl, movementsTbl, products, profile, user, fetchPending,
                 pc, run, outcome, nSubmits, initialQuantity, productsPage, dashboard,
                 searchTerm, typeFilter>>

\* fetchMovements fails: toast.error, setLoading(false)
FetchMovementsError ==
  /\ loading
  /\ ~effectPending
  /\ loading' = FALSE
  /\ UNCHANGED <<productsTbl, movementsTbl, products, profile, user, fetchPending,
                 pc, run, outcome, nSubmits, initialQuantity, productsPage, dashboard,
                 movements, filteredMovements, searchTerm, typeFilter,
                 effectPending>>

\* the user edits the search box (shown once loading is false; the event is
\* handled after the effects of the last render have run):
\* setSearchTerm(e.target.value)
SetSearchTerm(term) ==
  /\ ~loading
  /\ ~effectPending
  /\ term # searchTerm
  /\ searchTerm' = term
  /\ effectPending' = FilterEffectRuns("searchTerm")
  /\ UNCHANGED <<productsTbl, movementsTbl, products, profile, user, fetchPending,
                 pc, run, outcome, nSubmits, initialQuantity, productsPage, dashboard,
                 movements, filteredMovements, typeFilter, loading>>

\* the user picks a type: setTypeFilter(value)
SetTypeFilter(type) ==
  /\ ~loading
  /\ ~effectPending
  /\ type # typeFilter
  /\ typeFilter' = type
  /\ effectPending' = FilterEffectRuns("typeFilter")
  /\ UNCHANGED <<productsTbl, movementsTbl, products, profile, user, fetchPending,
                 pc, run, outcome, nSubmits, initialQuantity, productsPage, dashboard,
                 movements, filteredMovements, searchTerm, loading>>

\* the filter effect runs: filterMovements() with the movements, searchTerm
\* and typeFilter of the render that scheduled it
FilterEffect ==
  /\ effectPending
  /\ filteredMovements' = FilterMovements(movements, searchTerm, typeFilter)
  /\ effectPending' = FALSE
  /\ UNCHANGED <<productsTbl, movementsTbl, products, profile, user, fetchPending,
                 pc, run, outcome, nSubmits, initialQuantity, productsPage, dashboard,
                 movements, searchTerm, typeFilter, loading>>

(* ------------------------------ session -------------------------------- *)

\* The session of client c ends (sign-out, or the token expires): useAuth()
\* gives user = null from then on, and the requests of c reach the store
\* without the role `authenticated`.
SessionEnds(c) ==
  /\ user[c] # None
  /\ user' = [user EXCEPT ![c] = None]
  /\ UNCHANGED <<productsTbl, movementsTbl, products, profile, fetchPending, pc,
                 run, outcome, nSubmits, initialQuantity, productsPage, readPages>>

(* --------------------------- specification ----------------------------- *)

Next ==
  \/ \E c \in Clients, pid \in ProductIds, type \in {"entrada", "saida"},
        text \in QuantityTexts, notes \in NotesTexts :
       HandleSubmit(c, pid, type, text, notes)
  \/ \E k \in Calls : UpdateOk(k)
  \/ \E k \in Calls : UpdateError(k)
  \/ \E k \in Calls : InsertOk(k)
  \/ \E k \in Calls : InsertError(k)
  \/ \E c \in Clients : FetchProductsOk(c)
  \/ \E c \in Clients : FetchProductsError(c)
  \/ \E c \in Clients : FetchProfileOk(c)
  \/ \E c \in Clients : Mount(c)
  \/ \E c \in Clients, id \in ProductIds : HandleDelete(c, id)

Spec == Init /\ [][Next]_vars

\* The Movements page together with the Products page and the end of
\* sessions, for one visit of the Movements page by each client.
NextAccess ==
  \/ \E c \in Clients, pid \in ProductIds \cup NewProductIds,
        type \in {"entrada", "saida"}, text \in QuantityTexts, notes \in NotesTexts :
       HandleSubmit(c, pid, type, text, notes)
  \/ \E k \in Calls : UpdateOk(k)
  \/ \E k \in Calls : UpdateError(k)
  \/ \E k \in Calls : InsertOk(k)
  \/ \E k \in Calls : InsertError(k)
  \/ \E c \in Clients : FetchProductsOk(c)
  \/ \E c \in Clients : FetchProfileOk(c)
  \/ \E c \in Clients, quantity \in ProductFormQuantities : CreateProduct(c, quantity)
  \/ \E c \in Clients, id \in ProductIds \cup NewProductIds,
        quantity \in ProductFormQuantities : EditProduct(c, id, quantity)
  \/ \E c \in Clients, id \in ProductIds \cup NewProductIds : HandleDelete(c, id)
  \/ \E c \in Clients : SessionEnds(c)

\* as Init, with only the first client signed in
InitAccess ==
  /\ productsTbl = [p \in ProductIds |->
                      [quantity |-> InitialQuantity, min_stock |-> DefaultMinStock]]
  /\ movementsTbl = <<>>
  /\ initialQuantity = [p \in ProductIds |-> productsTbl[p].quantity]
  /\ products = [c \in Clients |-> <<>>]
  /\ profile = [c \in Clients |-> None]
  /\ user = [c \in Clients |-> IF c = 1 THEN Some(c) ELSE None]
  /\ fetchPending = [c \in Clients |-> 1]
  /\ pc = [k \in Calls |-> "idle"]
  /\ run = [k \in Calls |-> NoRun]
  /\ outcome = [k \in Calls |-> "none"]
  /\ nSubmits = 0
  /\ productsPage = [c \in Clients |-> NoOperation]
  /\ InitReadPages

SpecAccess == InitAccess /\ [][NextAccess]_vars

\* The Movements page of every client next to the Products page with its
\* edit form: the list the form is opened from, the quantity box, the save.
NextEdit ==
  \/ \E c \in Clients, pid \in ProductIds, type \in {"entrada", "saida"},
        text \in QuantityTexts, notes \in NotesTexts :
       HandleSubmit(c, pid, type, text, notes)
  \/ \E k \in Calls : UpdateOk(k)
  \/ \E k \in Calls : InsertOk(k)
  \/ \E c \in Clients : FetchProductsOk(c)
  \/ \E c \in Clients : FetchProfileOk(c)
  \/ \E c \in Editors : ProductsFetchOk(c)
  \/ \E c \in Editors : ProductsFetchError(c)
  \/ \E c \in Editors, id \in ProductIds : HandleEdit(c, id)
  \/ \E c \in Editors, quantity \in ProductFormQuantities : SetFormQuantity(c, quantity)
  \/ \E c \in Editors : ProductsHandleSubmit(c)

SpecEdit == Init /\ [][NextEdit]_vars

\* products the Dashboard is followed with: one more than it shows
DashboardIds == 1..(LowStockLimit + 1)

\* quantity and min_stock of those products
StockLevels == {0, 1, 2}
MinStocks == {1, 2}

\* the Dashboard page over a catalogue of DashboardIds
InitDashboard ==
  /\ productsTbl \in [DashboardIds -> [quantity : StockLevels, min_stock : MinStocks]]
  /\ movementsTbl = <<>>
  /\ initialQuantity = [p \in DashboardIds |-> productsTbl[p].quantity]
  /\ InitMovementsPages
  /\ InitReadPages

NextDashboard ==
  \/ DashboardMount
  \/ FetchDashboardData
  \/ \E id \in DashboardIds, newQuantity \in StockLevels : MovementRecorded(id, newQuantity)

SpecDashboard == InitDashboard /\ [][NextDashboard]_vars

\* the Dashboard over one product of every quantity and min_stock the
\* Products form accepts (min="0") up to MaxStockLevel
InitStatus ==
  /\ productsTbl \in [ProductIds -> [quantity : 0..MaxStockLevel,
                                      min_stock : 0..MaxStockLevel]]
  /\ movementsTbl = <<>>
  /\ initialQuantity = [p \in ProductIds |-> productsTbl[p].quantity]
  /\ InitMovementsPages
  /\ InitReadPages

NextStatus ==
  \/ DashboardMount
  \/ FetchDashboardData
  \/ \E id \in ProductIds, newQuantity \in 0..MaxStockLevel :
       MovementRecorded(id, newQuantity)

SpecStatus == InitStatus /\ [][NextStatus]_vars

\* names of products and of users, and what the user may type in the
\* search box
ProductNames == {<<"A", "b">>, <<"b">>}
ResponsibleNames == {<<"a">>, <<"B", "a">>}
SearchTerms == {<<>>, <<"a">>, <<"b">>, <<"A", "B">>, <<"b", "a">>}

\* the answers of select("*, products(name, category)") ordered by
\* created_at: lists of rows, the id of a row being its place in the list
MovementLists ==
  UNION {
    { [i \in 1..n |-> [id |-> i, type |-> f[i].type,
                       responsible_name |-> f[i].responsible_name,
                       products |-> [name |-> f[i].name]]] :
        f \in [1..n -> [type : {"entrada", "saida"},
                        responsible_name : ResponsibleNames,
                        name : ProductNames]] } :
    n \in 0..MaxMovements }

NextHistory ==
  \/ HistoryMount
  \/ \E data \in MovementLists : FetchMovementsOk(data)
  \/ FetchMovementsError
  \/ \E term \in SearchTerms : SetSearchTerm(term)
  \/ \E type \in {"all", "entrada", "saida"} : SetTypeFilter(type)
  \/ FilterEffect

SpecHistory == Init /\ [][NextHistory]_vars

\* the Dashboard and the History page side by side
NextReads == NextDashboard \/ NextHistory

SpecReads == Init /\ [][NextReads]_vars

(* ------------------------------ claims --------------------------------- *)

Started(k) == k <= nSubmits

Finished(k) == Started(k) /\ pc[k] = "idle"

Succeeded(k) == Finished(k) /\ outcome[k] = "success"

\* signed quantity of invocation k: + for entrada, - for saida
Delta(k) == IF run[k].type = "entrada" THEN run[k].quantity ELSE 0 - run[k].quantity

ProductOf(k) == Get(run[k].product_id)

\* the movement rows written by invocation k
RowsOfCall(k) == SelectSeq(movementsTbl, LAMBDA m : m.call = k)

\* the movement rows of product p
RowsOfProduct(p) == SelectSeq(movementsTbl, LAMBDA m : m.product_id = p)

RECURSIVE LogBalance(_)
\* inbound quantities minus outbound quantities of a sequence of rows
LogBalance(rows) ==
  IF rows = <<>> THEN 0
  ELSE (IF Head(rows).type = "entrada" THEN Head(rows).quantity
        ELSE 0 - Head(rows).quantity) + LogBalance(Tail(rows))

\* no invocation other than those in ks has written a product quantity
OnlyWriters(ks) == \A j \in Calls \ ks : ~run[j].updateApplied

\* C1: two overlapping recordMovement calls on the same product that both
\* succeed (and are the only writers of that product) leave the stored
\* quantity at the registered quantity plus both deltas.
C1_NoLostUpdate ==
  \A k1, k2 \in Calls :
    ( /\ k1 < k2
      /\ Succeeded(k1) /\ Succeeded(k2)
      /\ ProductOf(k1) = ProductOf(k2)
      /\ k2 \in run[k1].overlap
      /\ OnlyWriters({k1, k2})
      /\ ProductOf(k1) \in DOMAIN productsTbl )
    => productsTbl[ProductOf(k1)].quantity
         = initialQuantity[ProductOf(k1)] + Delta(k1) + Delta(k2)

\* C2: when calls ran one after another (none overlapping another), none is
\* in flight and none failed at a write, every product's stored quantity is
\* its registered quantity plus inbound minus outbound quantities of its
\* movement log.
C2_BalanceMatchesLog ==
  ( \A k \in Calls : Started(k) =>
       /\ pc[k] = "idle"
       /\ outcome[k] # "error"
       /\ run[k].overlap = {} )
  => \A p \in DOMAIN productsTbl :
       productsTbl[p].quantity = initialQuantity[p] + LogBalance(RowsOfProduct(p))

\* C3: a recordMovement that failed, and is the only call that ever wrote
\* the product, has left the product's quantity as registered and no
\* movement row of its own.
C3_AllOrNothing ==
  \A k \in Calls :
    ( /\ Finished(k) /\ outcome[k] = "error"
      /\ OnlyWriters({k})
      /\ ProductOf(k) \in DOMAIN productsTbl )
    => /\ productsTbl[ProductOf(k)].quantity = initialQuantity[ProductOf(k)]
       /\ RowsOfCall(k) = <<>>

\* C4: N outbound calls of quantity 1, all overlapping one another, on a
\* product registered with quantity N, none hit by a store error: all
\* succeed, the stored quantity is 0 and the product has N movement rows.
C4_ConcurrentUnitOutbound ==
  \A p \in DOMAIN productsTbl :
    LET N == initialQuantity[p] IN
    ( /\ N >= 2 /\ nSubmits = N
      /\ \A k \in 1..N :
           /\ Finished(k) /\ outcome[k] # "error"
           /\ ProductOf(k) = p
           /\ run[k].type = "saida" /\ run[k].quantity = 1
           /\ run[k].overlap = (1..N) \ {k} )
    => /\ \A k \in 1..N : Succeeded(k)
       /\ productsTbl[p].quantity = 0
       /\ Len(RowsOfProduct(p)) = N

\* C5: in every reachable state every product's stored quantity is >= 0.
C5_QuantityNonNegative ==
  \A p \in DOMAIN productsTbl : productsTbl[p].quantity >= 0

\* two successful outbound calls on one product that together take more
\* than the product was registered with
C5_Witness ==
  \E k1, k2 \in Calls :
    /\ k1 < k2
    /\ Succeeded(k1) /\ Succeeded(k2)
    /\ ProductOf(k1) = ProductOf(k2)
    /\ run[k1].type = "saida" /\ run[k2].type = "saida"
    /\ run[k1].quantity + run[k2].quantity > initialQuantity[ProductOf(k1)]
    /\ ProductOf(k1) \in DOMAIN productsTbl

\* C6: no outbound call writes the balance when its quantity exceeds the
\* quantity stored at the moment the write is applied.
C6_OverdrawRejected ==
  \A k \in Calls :
    (run[k].updateApplied /\ run[k].type = "saida")
    => run[k].quantity <= Get(run[k].prevQuantity)

\* C7: a submission whose quantity is not positive is refused with the
\* validation outcome and writes nothing, and every movement row has
\* quantity >= 1.
C7_PositiveQuantity ==
  /\ \A k \in Calls :
       (Started(k) /\ run[k].quantity < 1)
       => /\ outcome[k] = "invalid"
          /\ pc[k] = "idle"
          /\ ~run[k].updateApplied
          /\ RowsOfCall(k) = <<>>
  /\ \A i \in 1..Len(movementsTbl) : movementsTbl[i].quantity >= 1

\* a non-positive quantity was submitted by a client whose page was ready to
\* record it, and a movement has been recorded as well
C7_Witness ==
  \E k \in Calls :
    /\ Started(k) /\ run[k].quantity < 1
    /\ run[k].responsible_name # None
    /\ ProductOf(k) \in DOMAIN products[Get(run[k].client)]
    /\ movementsTbl # <<>>

\* C8: a valid call by an authenticated user on a product that was not in
\* the store when the call was made returns at once with the not-found
\* outcome and writes nothing.
C8_MissingProductNotFound ==
  \A k \in Calls :
    ( /\ Started(k)
      /\ ~run[k].existedAtStart
      /\ outcome[k] \notin {"invalid", "unauth"} )
    => /\ pc[k] = "idle"
       /\ outcome[k] = "notfound"
       /\ ~run[k].updateApplied
       /\ RowsOfCall(k) = <<>>

\* C9: a successful call wrote the quantity stored just before its write
\* plus its delta, and (while its product exists) the log holds exactly one
\* row of it, with the product, type, quantity, notes and user it was
\* called with.
C9_SuccessEffect ==
  \A k \in Calls :
    Succeeded(k)
    => /\ run[k].updateApplied
       /\ Get(run[k].newQuantity) = Get(run[k].prevQuantity) + Delta(k)
       /\ ProductOf(k) \in DOMAIN productsTbl
          => /\ Len(RowsOfCall(k)) = 1
             /\ RowsOfCall(k)[1] =
                  [product_id |-> ProductOf(k), type |-> run[k].type,
                   quantity |-> run[k].quantity,
                   responsible_id |-> Get(user[Get(run[k].client)]),
                   responsible_name |-> FullName(Get(user[Get(run[k].client)])),
                   notes |-> run[k].notes, call |-> k]

\* C10: a call that failed and was then made again by the same client with
\* the same inputs, successfully, and no other call wrote the product: the
\* stored quantity is the registered quantity plus one delta, and the log
\* holds exactly one row of the two calls.
C10_RetryAppliesOnce ==
  \A k1, k2 \in Calls :
    ( /\ k1 < k2
      /\ Finished(k1) /\ outcome[k1] = "error"
      /\ Succeeded(k2)
      /\ k2 \notin run[k1].overlap
      /\ run[k1].client = run[k2].client
      /\ run[k1].product_id = run[k2].product_id
      /\ run[k1].type = run[k2].type
      /\ run[k1].quantity = run[k2].quantity
      /\ run[k1].notes = run[k2].notes
      /\ OnlyWriters({k1, k2})
      /\ ProductOf(k1) \in DOMAIN productsTbl )
    => /\ productsTbl[ProductOf(k1)].quantity
            = initialQuantity[ProductOf(k1)] + Delta(k2)
       /\ Len(RowsOfCall(k1)) + Len(RowsOfCall(k2)) = 1

\* C11: the movement log is append-only: in every step of the system
\* (recording a movement, creating, editing or deleting a product) every row
\* of the log stays where it was, unchanged, and the log only grows.
C11_AppendOnly ==
  [][ /\ Len(movementsTbl') >= Len(movementsTbl)
      /\ SubSeq(movementsTbl', 1, Len(movementsTbl)) = movementsTbl ]_vars

\* C12: every movement row carries the identity of the client whose call
\* wrote it, and a call whose insert the store refused under the insert
\* policy has written no product quantity.
C12_ResponsibleIsCaller ==
  /\ \A i \in 1..Len(movementsTbl) :
       movementsTbl[i].responsible_id = Get(run[movementsTbl[i].call].client)
  /\ \A k \in Calls :
       (Finished(k) /\ run[k].refusal = "policy") => ~run[k].updateApplied

\* invocation k has ended with a failure
Failed(k) == Finished(k) /\ outcome[k] \notin {"none", "success"}

\* the kind of the failure invocation k ended with: what the handler found
\* before its first write, or why the store refused a write
FailureKind(k) ==
  CASE outcome[k] = "invalid" -> "validation"
    [] outcome[k] = "unauth" -> "authorization"
    [] outcome[k] = "notfound" -> "not found"
    [] outcome[k] = "insufficient" -> "insufficient stock"
    [] outcome[k] = "error" /\ run[k].refusal = "reference" -> "not found"
    [] outcome[k] = "error" /\ run[k].refusal = "policy" -> "authorization"
    [] OTHER -> "persistence"

\* C13: failures of different kinds are reported with different outcomes
\* (two calls that reported the same outcome failed for the same kind of
\* reason), and a call reported as success was refused nothing by the store
\* and has written its product.
C13_DistinctOutcomes ==
  /\ \A k1, k2 \in Calls :
       (Failed(k1) /\ Failed(k2) /\ outcome[k1] = outcome[k2])
       => FailureKind(k1) = FailureKind(k2)
  /\ \A k \in Calls :
       Succeeded(k) => (run[k].refusal = "none" /\ run[k].updateApplied)

\* the step is one of invocation k: its start, or one of its requests answered
StepOf(k) == (nSubmits = k - 1 /\ nSubmits' = k) \/ pc'[k] # pc[k]

\* C14: every step of a recordMovement call leaves the set of products, the
\* quantity of every product other than its target and every row of the log
\* as they were; it writes its target only when its update is answered and
\* appends one row only when its insert succeeds; and the call goes through
\* update and insert once, in that order, and never starts again.
C14_Frame ==
  [][ \A k \in Calls : StepOf(k) =>
        LET target == Get(run'[k].product_id)
            writes == pc[k] = "update" /\ pc'[k] = "insert"
            inserts == pc[k] = "insert" /\ outcome'[k] = "success" IN
        /\ DOMAIN productsTbl' = DOMAIN productsTbl
        /\ \A p \in DOMAIN productsTbl :
             (p # target \/ ~writes) => productsTbl'[p] = productsTbl[p]
        /\ Len(movementsTbl') = Len(movementsTbl) + (IF inserts THEN 1 ELSE 0)
        /\ SubSeq(movementsTbl', 1, Len(movementsTbl)) = movementsTbl
        /\ <<pc[k], pc'[k]>> \in {<<"idle", "idle">>, <<"idle", "update">>,
                                  <<"update", "insert">>, <<"update", "idle">>,
                                  <<"insert", "idle">>}
        /\ pc[k] = "idle" => nSubmits = k - 1 ]_vars

\* two products in the store, each with a movement recorded by its own call
C14_Witness ==
  \E k1, k2 \in Calls :
    /\ Succeeded(k1) /\ Succeeded(k2)
    /\ ProductOf(k1) # ProductOf(k2)
    /\ {ProductOf(k1), ProductOf(k2)} \subseteq DOMAIN productsTbl
    /\ Len(RowsOfCall(k1)) = 1 /\ Len(RowsOfCall(k2)) = 1

\* the products whose stored quantity is at most their min_stock
LowIds == {p \in DOMAIN productsTbl : productsTbl[p].quantity <= productsTbl[p].min_stock}

SameLetter(x, y) == x = y \/ {x, y} \in {{"a", "A"}, {"b", "B"}}

\* t occurs in s, case ignored
Occurs(t, s) ==
  \E i \in 0..(Len(s) - Len(t)) : \A j \in 1..Len(t) : SameLetter(s[i + j], t[j])

\* the rows of the loaded list the filters in force let through
Matching ==
  {i \in 1..Len(movements) :
     /\ searchTerm # <<>> =>
          \/ Occurs(searchTerm, movements[i].products.name)
          \/ Occurs(searchTerm, movements[i].responsible_name)
     /\ typeFilter # "all" => movements[i].type = typeFilter}

\* C16: what the filter has returned (the filtered list, once the filter
\* effect has run) holds rows of the loaded list in the order they
\* have there, each at most once, and exactly those whose product name or
\* responsible name contains the search term, case ignored (when there is a
\* term), and whose type is the type filter (when it is not "all"); with
\* no term and "all" it is the loaded list.
C16_HistoryFilter ==
  ~effectPending =>
    /\ \A i \in 1..Len(filteredMovements) :
         /\ filteredMovements[i].id \in Matching
         /\ filteredMovements[i] = movements[filteredMovements[i].id]
    /\ \A i, j \in 1..Len(filteredMovements) :
         i < j => filteredMovements[i].id < filteredMovements[j].id
    /\ Len(filteredMovements) = Cardinality(Matching)
    /\ (searchTerm = <<>> /\ typeFilter = "all") => filteredMovements = movements

\* a term in capitals and the filter "saida" keep the first and the third of
\* three loaded rows, which match the term only when case is ignored, and
\* drop the second, which is a "saida" as well
C16_Witness ==
  /\ ~effectPending
  /\ searchTerm = <<"A", "B">>
  /\ typeFilter = "saida"
  /\ Len(movements) = MaxMovements
  /\ Len(filteredMovements) = 2
  /\ filteredMovements[1].id = 1 /\ filteredMovements[2].id = 3
  /\ movements[2].type = "saida"

\* C17: every row of the movement log names a product that is in the store.
C17_MovementsReferenceProducts ==
  \A i \in 1..Len(movementsTbl) : movementsTbl[i].product_id \in DOMAIN productsTbl

\* a product that had a movement recorded has been deleted, and the insert
\* of a call that was in flight on it has been refused by the foreign key
C17_Witness ==
  \E k1, k2 \in Calls :
    /\ Succeeded(k1)
    /\ ProductOf(k1) \notin DOMAIN productsTbl
    /\ Finished(k2)
    /\ run[k2].product_id = run[k1].product_id
    /\ run[k2].existedAtStart
    /\ run[k2].refusal = "reference"

\* C18: a Products-page operation (create, edit, delete) of a client with no
\* signed-in user leaves the products and movements tables as they were;
\* and a recordMovement invoked with no signed-in user ends in its first
\* step, before any request is sent, and leaves both tables as they were.
C18_NoActorNoWrite ==
  [][ /\ \A c \in Clients :
           (productsPage'[c] # productsPage[c] /\ user[c] = None)
           => UNCHANGED <<productsTbl, movementsTbl>>
      /\ \A k \in Calls :
           (StepOf(k) /\ run'[k].responsible_id = None)
           => (pc'[k] = "idle" /\ UNCHANGED <<productsTbl, movementsTbl>>)
    ]_vars

\* with a product in the store, a client with no signed-in user has
\* submitted a valid movement, which ended "unauth", and has saved an edit of
\* the product, which the page reported as saved
C18_Witness ==
  \E c \in Clients, k \in Calls :
    /\ user[c] = None
    /\ Started(k) /\ run[k].client = Some(c) /\ run[k].responsible_id = None
    /\ run[k].quantity >= 1 /\ run[k].existedAtStart
    /\ outcome[k] = "unauth"
    /\ productsPage[c].op = "edit" /\ productsPage[c].actor = None
    /\ productsPage[c].toast = "success"
    /\ ProductOf(k) \in DOMAIN productsTbl
    /\ productsTbl[ProductOf(k)].quantity = initialQuantity[ProductOf(k)]

\* C19: a step of the low-stock query or of the history filter changes no
\* row of the products and movements tables, the filter leaves the loaded
\* list as it is, and whenever the filter inputs are again those of the first
\* call after loading (no term, "all") the filtered list is again what that
\* call returned, the loaded list.
C19_PureReads ==
  [][ /\ (dashboard' # dashboard \/ historyVars' # historyVars)
           => UNCHANGED <<productsTbl, movementsTbl>>
      /\ (~loading /\ ~loading') => movements' = movements
      /\ (~loading' /\ ~effectPending' /\ searchTerm' = <<>> /\ typeFilter' = "all")
           => filteredMovements' = movements'
    ]_vars

\* the Dashboard shows the low-stock product and the History page a list
\* narrowed by a term and a type, with the store as it was registered
C19_Witness ==
  /\ ~dashboard.loading /\ dashboard.lowStockProducts # <<>>
  /\ ~loading /\ ~effectPending
  /\ searchTerm # <<>> /\ typeFilter # "all"
  /\ filteredMovements # <<>>
  /\ Len(filteredMovements) < Len(movements)
  /\ \A p \in DOMAIN productsTbl : productsTbl[p].quantity = initialQuantity[p]
  /\ movementsTbl = <<>>

\* C20: when all the submissions so far are of one client, a submission that
\* finds its product in the page's list and in the store reads from the
\* list the quantity the store holds.
C20_CacheIsCurrent ==
  \A k \in Calls :
    ( /\ Started(k)
      /\ \A j \in 1..k : run[j].client = run[k].client
      /\ run[k].selectedQuantity # None
      /\ run[k].storedQuantity # None )
    => run[k].selectedQuantity = run[k].storedQuantity

\* the Products form of client c is saved as an edit in this step
EditSaved(c) ==
  /\ productsPage[c].editingProduct # None
  /\ productsPage'[c].op = "edit"
  /\ productsPage'[c].n = productsPage[c].n + 1

\* the quantity box of the edit form of client c holds what handleEdit put
\* in it
QuantityUntouched(c) ==
  /\ productsPage[c].editingProduct # None
  /\ productsPage[c].formData.quantity = Get(productsPage[c].editingProduct).quantity

\* C21: saving a product edit whose quantity box was left as handleEdit
\* filled it does not change the stored quantity of any product, whatever
\* movements were recorded between handleEdit and the save.
C21_EditKeepsBalance ==
  [][\A c \in Clients :
       (EditSaved(c) /\ QuantityUntouched(c)) => productsTbl' = productsTbl]_vars

\* the rows the pages classify: those of the store, which the Products
\* table renders a badge for, and those the Dashboard lists
ClassifiedRows ==
  {AllProducts[i] : i \in DOMAIN AllProducts}
    \cup {dashboard.lowStockProducts[i] : i \in DOMAIN dashboard.lowStockProducts}

\* C22: for every product, getStockStatus and getStockBadge give the same
\* one of three classes: out of stock exactly when quantity = 0, low exactly
\* when quantity <= min_stock and quantity # 0, normal otherwise; and the
\* product passes the low-stock filter exactly when its class is not normal.
C22_StatusAgreesWithFilter ==
  \A p \in ClassifiedRows :
    LET status == GetStockStatus(p.quantity, p.min_stock)
        badge == GetStockBadge(p.quantity, p.min_stock) IN
    /\ status.variant \in {"destructive", "warning", "success"}
    /\ badge.variant = status.variant
    /\ status.variant = "destructive" <=> p.quantity = 0
    /\ status.variant = "warning" <=> (p.quantity <= p.min_stock /\ p.quantity # 0)
    /\ status.variant = "success" <=> (p.quantity # 0 /\ ~(p.quantity <= p.min_stock))
    /\ IsLowStock(p) <=> status.variant # "success"

\* the Dashboard has loaded and lists a product whose quantity is exactly
\* its min_stock and not 0, classified low
C22_Witness ==
  /\ ~dashboard.loading
  /\ \E i \in DOMAIN dashboard.lowStockProducts :
       LET p == dashboard.lowStockProducts[i] IN
       /\ p.quantity = p.min_stock /\ p.quantity # 0
       /\ GetStockStatus(p.quantity, p.min_stock).variant = "warning"

\* C23: whenever no filter effect is pending, the displayed list is the
\* history filter applied to the loaded movements with the search term and
\* the type filter in force; and while a load is pending no filter is in
\* force (the inputs are not rendered), so that a load never completes over
\* a filter entered before it.
C23_DisplayedIsFiltered ==
  /\ ~effectPending =>
       filteredMovements = FilterMovements(movements, searchTerm, typeFilter)
  /\ loading => (searchTerm = <<>> /\ typeFilter = "all" /\ ~effectPending)

\* after a load, a search term and then a type were entered, the effects
\* have run, and the displayed list is shorter than the loaded one and than
\* what the term alone lets through
C23_Witness ==
  /\ ~loading /\ ~effectPending
  /\ searchTerm # <<>> /\ typeFilter # "all"
  /\ Len(filteredMovements) < Len(FilterMovements(movements, searchTerm, "all"))
  /\ Len(FilterMovements(movements, searchTerm, "all")) < Len(movements)

====
